---------------------------- MODULE Spec2Model ----------------------------
(***************************************************************************)
(* A model of flawful.add: the flagged-card synthesis and override merge   *)
(* of create_tl_additional_output (src/src/flawful/add.py), called as      *)
(* example1.py calls it (str_to_wordlist_key = make_wordlist_key_notes,    *)
(* flags = FLAGS, the default nl_abbr, tl_abbr and flag_id_prefix).        *)
(*                                                                         *)
(* A Python str is a sequence of characters; a character is a one-element  *)
(* TLA+ string, and the four non-ASCII characters the code handles are the *)
(* named atoms DEG, DAGGER, APPROX and AUML.                               *)
(***************************************************************************)
EXTENDS Integers, Sequences, FiniteSets, TLC

VARIABLES pc, err, df, row, idx, tl_notes_list, tl2_list,
          tl1_not_flagged_set, tl1_flagged_dict, last,
          aud_dicts, tl1_df, tl_override_df, out,
          def_list, ret_dict, col1, col2, found,
          de_call, de2, de_idx, de1_flagged_dict

vars == <<pc, err, df, row, idx, tl_notes_list, tl2_list,
          tl1_not_flagged_set, tl1_flagged_dict, last,
          aud_dicts, tl1_df, tl_override_df, out,
          def_list, ret_dict, col1, col2, found,
          de_call, de2, de_idx, de1_flagged_dict>>

-----------------------------------------------------------------------------
(* Characters and strings *)

DEG == "deg"
DAGGER == "dagger"
APPROX == "approx"
AUML == "auml"
SUP2 == "sup2"

\* FLAGS = '°†'
FLAGS == <<DEG, DAGGER>>

Digits == <<"0", "1", "2", "3", "4", "5", "6", "7", "8", "9">>

\* str.isdigit() on one character: true of the decimal digits and of the
\* superscript two (which is a digit, but no decimal character)
isdigit(c) == (\E i \in 1..10 : Digits[i] = c) \/ c = SUP2

\* int() of one character raises ValueError (invalid literal) unless the
\* character is a decimal digit
IntRaises(c) == \A i \in 1..10 : Digits[i] # c

\* int() of one decimal digit
int(c) == (CHOOSE i \in 1..10 : Digits[i] = c) - 1

\* str(n) for 0 <= n <= 999
str(n) == IF n < 10 THEN <<Digits[n + 1]>>
          ELSE IF n < 100 THEN <<Digits[(n \div 10) + 1], Digits[(n % 10) + 1]>>
          ELSE <<Digits[(n \div 100) + 1], Digits[((n \div 10) % 10) + 1],
                 Digits[(n % 10) + 1]>>

RECURSIVE lstrip(_)
lstrip(s) == IF s # <<>> /\ Head(s) = " " THEN lstrip(Tail(s)) ELSE s

RECURSIVE rstrip(_)
rstrip(s) == IF s # <<>> /\ s[Len(s)] = " "
             THEN rstrip(SubSeq(s, 1, Len(s) - 1)) ELSE s

\* str.strip()
strip(s) == rstrip(lstrip(s))

\* s[n:] with n a 0-based offset
From(s, n) == SubSeq(s, n + 1, Len(s))

\* set(flags).isdisjoint(val)
isdisjoint(flags, val) ==
    \A i \in 1..Len(val) : \A j \in 1..Len(flags) : val[i] # flags[j]

\* translate deleting the first flag of the set only
translateFirstFlag(val, flags) == SelectSeq(val, LAMBDA c : c # flags[1])

\* val.translate(str.maketrans('', '', flags)): every flag character deleted
translate(val, flags) ==
    SelectSeq(val, LAMBDA c : \A j \in 1..Len(flags) : c # flags[j])

\* sub in s
Contains(s, sub) ==
    \E i \in 1..(Len(s) - Len(sub) + 1) : SubSeq(s, i, i + Len(sub) - 1) = sub

\* s.split(c)[0]: the part of s before the first c
RECURSIVE split0(_, _)
split0(s, c) == IF s = <<>> \/ Head(s) = c THEN <<>>
                ELSE <<Head(s)>> \o split0(Tail(s), c)

\* s.split(c): the parts of s between the occurrences of c ([''] for '')
RECURSIVE split(_, _)
split(s, c) ==
    IF \A k \in 1..Len(s) : s[k] # c THEN <<s>>
    ELSE <<split0(s, c)>> \o split(From(s, Len(split0(s, c)) + 1), c)

\* ';'.join(list)
RECURSIVE join(_)
join(list) == IF list = <<>> THEN <<>>
              ELSE IF Len(list) = 1 THEN list[1]
              ELSE list[1] \o <<";">> \o join(Tail(list))

\* The sequences over S of length lo..hi
SeqsOf(S, lo, hi) == UNION {[1..n -> S] : n \in lo..hi}

-----------------------------------------------------------------------------
(* examples/example1.py: the headword resolver passed to the engine *)

sich == <<"s", "i", "c", "h">>

\* de_trtab = str.maketrans("',", '__', '?!°')
de_trtab(s) ==
    LET kept == SelectSeq(s, LAMBDA c : c \notin {"?", "!", DEG})
    IN  [i \in 1..Len(kept) |-> IF kept[i] \in {"'", ","} THEN "_" ELSE kept[i]]

\* make_wordlist_key_notes(x).  No token of the model starts with a definite
\* article, so INITIAL_DER_DAS_DIE_PATTERN.sub leaves every one unchanged.
make_wordlist_key_notes(x) ==
    LET cut == split0(split0(de_trtab(strip(x)), "["), "(")
    IN  IF strip(cut) = sich /\ strip(x) # sich THEN <<>> ELSE strip(cut)

str_to_wordlist_key(x) == make_wordlist_key_notes(x)

-----------------------------------------------------------------------------
(* add.py: check_flag_usage, called as example1.py calls it: on two lists of
   tokens, with flags = DE3_FLAGS_TO_CHECK *)

\* DE3_FLAGS_TO_CHECK = '°'
DE3_FLAGS_TO_CHECK == <<DEG>>

\* c in s
In(c, s) == \E k \in 1..Len(s) : s[k] = c

\* The loop over flags (lines 83-96) for one pair of cells, from the j-th
\* flag on: the exception raised, if any, and found.  The messages of lines
\* 87, 90 and 95 are built by adding the list col1 or col2 to a str, which
\* raises TypeError before the ValueError is made; line 92 adds a str.
RECURSIVE CheckCell(_, _, _, _)
CheckCell(val, other, flags, j) ==
    IF j > Len(flags) THEN [raised |-> "", found |-> 0]
    ELSE IF In(flags[j], val) THEN
        IF ~In(flags[j], other) THEN [raised |-> "TypeError", found |-> 1]
        ELSE IF In("~", val) THEN [raised |-> "TypeError", found |-> 0]
        ELSE IF In("~", other) THEN [raised |-> "ValueError", found |-> 0]
        ELSE CheckCell(val, other, flags, j + 1)
    ELSE IF In(flags[j], other) THEN [raised |-> "TypeError", found |-> 0]
    ELSE CheckCell(val, other, flags, j + 1)

\* The loop over col1_list (line 82) from the i-th cell on
RECURSIVE CheckFrom(_, _, _, _)
CheckFrom(c1, c2, flags, i) ==
    IF i > Len(c1) THEN [raised |-> "", found |-> 0]
    ELSE LET r == CheckCell(c1[i], c2[i], flags, 1)
         IN  IF r.raised # "" THEN r ELSE CheckFrom(c1, c2, flags, i + 1)

\* check_flag_usage(col1, col2, flags): the exception it raises, or "" when
\* it runs to its end (it has no return statement and returns None)
check_flag_usage(c1, c2, flags) ==
    IF Len(c1) = Len(c2) THEN CheckFrom(c1, c2, flags, 1)
    ELSE [raised |-> "", found |-> 0]

-----------------------------------------------------------------------------
(* add.py: _to_def_dict *)

\* The None of a value (None, 'some text')
None == -1

\* EqValue keeping the character after M
EqValueKeepsSeparator(val) == IF Len(val) <= 4 THEN <<int(val[3]), <<>>>>
                              ELSE <<int(val[3]), From(val, 3)>>

\* The first branch of _to_def_dict: 'N=M', 'N=M text', and the same with the
\* approximately-equals sign
IsEqShape(val) ==
    /\ Len(val) >= 3
    /\ val[2] = "=" \/ val[2] = APPROX
    /\ isdigit(val[1])
    /\ isdigit(val[3])

\* The elif branch: 'N: text'
IsColonShape(val) ==
    /\ Len(val) >= 3
    /\ isdigit(val[1])
    /\ val[2] = ":"

EqValue(val) == IF Len(val) <= 4 THEN <<int(val[3]), <<>>>>
                ELSE <<int(val[3]), From(val, 4)>>

ColonValue(val) == <<None, From(val, 3)>>

\* ToDefDictStep without the test of lines 151-152: a repeated 'N: text'
\* overwrites the entry
ToDefDictStepColonOverwrites(acc, raw) ==
    LET val == strip(raw) IN
    IF acc.raised \/ acc.invalid THEN acc
    ELSE IF IsEqShape(val) THEN
        IF IntRaises(val[1]) THEN [acc EXCEPT !.invalid = TRUE]
        ELSE IF int(val[1]) \in DOMAIN acc.dict
        THEN [acc EXCEPT !.raised = TRUE]
        ELSE IF IntRaises(val[3]) THEN [acc EXCEPT !.invalid = TRUE]
        ELSE [acc EXCEPT !.dict = (int(val[1]) :> EqValue(val)) @@ acc.dict]
    ELSE IF IsColonShape(val) THEN
        IF IntRaises(val[1]) THEN [acc EXCEPT !.invalid = TRUE] ELSE
        [acc EXCEPT !.dict = (int(val[1]) :> ColonValue(val)) @@
                                [k \in DOMAIN acc.dict \ {int(val[1])} |-> acc.dict[k]]]
    ELSE acc

\* One iteration of the loop of _to_def_dict on the dictionary built so far;
\* acc.raised is the ValueError '... puts in dict twice', acc.invalid the
\* ValueError of int() on a character that is no decimal digit.
ToDefDictStep(acc, raw) ==
    LET val == strip(raw) IN
    IF acc.raised \/ acc.invalid THEN acc
    ELSE IF IsEqShape(val) THEN
        IF IntRaises(val[1]) THEN [acc EXCEPT !.invalid = TRUE]
        ELSE IF int(val[1]) \in DOMAIN acc.dict
        THEN [acc EXCEPT !.raised = TRUE]
        ELSE IF IntRaises(val[3]) THEN [acc EXCEPT !.invalid = TRUE]
        ELSE [acc EXCEPT !.dict = (int(val[1]) :> EqValue(val)) @@ acc.dict]
    ELSE IF IsColonShape(val) THEN
        IF IntRaises(val[1]) THEN [acc EXCEPT !.invalid = TRUE]
        ELSE IF int(val[1]) \in DOMAIN acc.dict
        THEN [acc EXCEPT !.raised = TRUE]
        ELSE [acc EXCEPT !.dict = (int(val[1]) :> ColonValue(val)) @@ acc.dict]
    ELSE acc

RECURSIVE ToDefDictFrom(_, _)
ToDefDictFrom(acc, list) ==
    IF list = <<>> THEN acc
    ELSE ToDefDictFrom(ToDefDictStep(acc, Head(list)), Tail(list))

EmptyDict == [k \in {} |-> <<>>]

\* _to_def_dict(def_list): [raised |-> the duplicate error, invalid |-> the
\* error of int(), dict |-> ret_dict]
to_def_dict(list) ==
    ToDefDictFrom([raised |-> FALSE, invalid |-> FALSE, dict |-> EmptyDict], list)

-----------------------------------------------------------------------------
(* add.py: _add_unflagged_headword_to_set and _make_new_cards *)

\* UnflaggedHeadwords without the test of headword for emptiness
UnflaggedHeadwordsWithEmpty(col_list, flags) ==
    {str_to_wordlist_key(strip(col_list[i])) : i \in
        {j \in 1..Len(col_list) : isdisjoint(flags, strip(col_list[j]))}}

\* The headwords one call of _add_unflagged_headword_to_set adds for col_list
UnflaggedHeadwords(col_list, flags) ==
    {str_to_wordlist_key(strip(col_list[i])) : i \in
        {j \in 1..Len(col_list) :
            /\ str_to_wordlist_key(strip(col_list[j])) # <<>>
            /\ isdisjoint(flags, strip(col_list[j]))}}

\* The default nl_abbr = 'N' and tl_abbr = 'T' of create_tl_additional_output
nl_abbr == "N"
tl_abbr == "T"

\* answer_lang: f'[{tl1_hint}]', f'[{nl1_hint}|{tl1_hint}]', f'[{nl1_hint}]'
LangTl == <<"[", tl_abbr, "]">>
LangNlTl == <<"[", nl_abbr, "|", tl_abbr, "]">>
LangNl == <<"[", nl_abbr, "]">>

NoCard == [merge_id |-> <<>>, nl1 |-> <<>>, part_of_speech |-> <<>>,
           tl_defs |-> <<>>, answer_lang |-> <<>>, tl1 |-> <<>>,
           tl2 |-> <<>>, tl_pronun |-> <<>>]

\* Tl2At reading the first element for every token
Tl2AtFirst(tl2l, i) == IF 1 <= Len(tl2l) THEN strip(tl2l[1]) ELSE <<>>

\* tl2_list[idx].strip(), or '' on IndexError
Tl2At(tl2l, i) == IF i + 1 <= Len(tl2l) THEN strip(tl2l[i + 1]) ELSE <<>>

\* LooksDefined looking for 'N:' alone
LooksDefinedColonOnly(notes, i) ==
    Contains(join(notes), str(i + 1) \o <<":">>)

\* The test of line 206: the joined notes look like they define position idx+1
LooksDefined(notes, i) ==
    \/ Contains(join(notes), str(i + 1) \o <<":">>)
    \/ Contains(join(notes), str(i + 1) \o <<"=">>)

\* Python's truth value of def_dict[idx+1][0]: None and 0 are false
Truthy(m) == m # None /\ m # 0

\* Definition joining the token and the text without the space
DefinitionNoSpace(tok, text) == strip(tok) \o text

\* Lines 194-195: the referenced token, trimmed, a space and the text
Definition(tok, text) == strip(tok) \o <<" ">> \o text

\* Resolve taking the last token of the list for a position past its end
ResolveClamped(tl1_list, dd, notes, i) ==
    IF i + 1 \in DOMAIN dd THEN
        IF Truthy(dd[i + 1][1]) THEN
            [raised |-> "",
             tl_defs |-> Definition(
                 tl1_list[IF dd[i + 1][1] > Len(tl1_list) THEN Len(tl1_list)
                          ELSE dd[i + 1][1]], dd[i + 1][2]),
             answer_lang |-> LangTl]
        ELSE [raised |-> "", tl_defs |-> dd[i + 1][2], answer_lang |-> LangNlTl]
    ELSE IF LooksDefined(notes, i)
         THEN [raised |-> "incorrect format def", tl_defs |-> <<>>,
               answer_lang |-> LangNl]
         ELSE [raised |-> "", tl_defs |-> <<>>, answer_lang |-> LangNl]

\* The definition and answer_lang of lines 188-210 for the token at 0-based
\* index i, or the exception raised there.
Resolve(tl1_list, dd, notes, i) ==
    IF i + 1 \in DOMAIN dd THEN
        IF Truthy(dd[i + 1][1]) THEN
            IF dd[i + 1][1] > Len(tl1_list)
            THEN [raised |-> "IndexError", tl_defs |-> <<>>, answer_lang |-> <<>>]
            ELSE [raised |-> "",
                  tl_defs |-> Definition(tl1_list[dd[i + 1][1]], dd[i + 1][2]),
                  answer_lang |-> LangTl]
        ELSE [raised |-> "", tl_defs |-> dd[i + 1][2], answer_lang |-> LangNlTl]
    ELSE IF LooksDefined(notes, i)
         THEN [raised |-> "incorrect format def", tl_defs |-> <<>>,
               answer_lang |-> LangNl]
         ELSE [raised |-> "", tl_defs |-> <<>>, answer_lang |-> LangNl]

\* dict_val of lines 214-221
DictVal(rec, tl2l, val, headword, res, flags, i) ==
    [merge_id |-> headword, nl1 |-> rec.nl1,
     part_of_speech |-> rec.part_of_speech,
     tl_defs |-> res.tl_defs, answer_lang |-> res.answer_lang,
     tl1 |-> translate(val, flags), tl2 |-> Tl2At(tl2l, i),
     tl_pronun |-> rec.tl_pronun]

\* One iteration of the loop of _make_new_cards, for the token at 0-based
\* index i of rec.tl1_list: what happened (kind), the exception (raised), the
\* card built and the dictionary afterwards.
\* IsFlagged taking every token for a flagged one
IsFlaggedAlways(flag_set, val) == TRUE

\* Line 175: not flag_set.isdisjoint(val)
IsFlagged(flag_set, val) == ~isdisjoint(flag_set, val)

\* IsExcluded without the mastered set
IsExcludedNever(headword, exclude_headwords) == FALSE

\* Line 176: headword in exclude_headwords
IsExcluded(headword, exclude_headwords) == headword \in exclude_headwords

\* Store entering a card into the empty dictionary only
StoreIfEmpty(dict, headword, dict_val) ==
    IF DOMAIN dict # {} THEN dict ELSE (headword :> dict_val) @@ dict

\* Store keeping the last card entered
StoreLast(dict, headword, dict_val) ==
    (headword :> dict_val) @@ [h \in DOMAIN dict \ {headword} |-> dict[h]]

\* Lines 223-226: if headword is duplicated, silently keep the first one
Store(dict, headword, dict_val) ==
    IF headword \in DOMAIN dict THEN dict ELSE (headword :> dict_val) @@ dict

\* Lines 211-226: the empty-headword error, else the card and its entry
Emit(dict, rec, tl2l, val, headword, res, flags, i) ==
    LET card == DictVal(rec, tl2l, val, headword, res, flags, i) IN
    IF res.raised # "" THEN
        [kind |-> "raised", raised |-> res.raised, card |-> NoCard, dict |-> dict]
    ELSE IF headword = <<>> THEN
        [kind |-> "raised", raised |-> "headword empty", card |-> NoCard,
         dict |-> dict]
    ELSE [kind |-> IF headword \in DOMAIN dict THEN "duplicate" ELSE "new",
          raised |-> "", card |-> card, dict |-> Store(dict, headword, card)]

MakeNewCardsToken(exclude_headwords, dict, flags, rec, tl2l, notes, i) ==
    LET val == strip(rec.tl1_list[i + 1])
        headword == str_to_wordlist_key(val)
    IN  IF ~IsFlagged(flags, val) THEN
            [kind |-> "unflagged", raised |-> "", card |-> NoCard, dict |-> dict]
        ELSE IF IsExcluded(headword, exclude_headwords) THEN
            [kind |-> "mastered", raised |-> "", card |-> NoCard, dict |-> dict]
        ELSE LET def_dict == to_def_dict(notes) IN
            IF def_dict.raised THEN
                [kind |-> "raised", raised |-> "puts in dict twice",
                 card |-> NoCard, dict |-> dict]
            ELSE IF def_dict.invalid THEN
                [kind |-> "raised", raised |-> "invalid literal",
                 card |-> NoCard, dict |-> dict]
            ELSE Emit(dict, rec, tl2l, val, headword,
                      Resolve(rec.tl1_list, def_dict.dict, notes, i), flags, i)

-----------------------------------------------------------------------------
(* The annotation collaborator and the override preprocessing *)

\* flawful.tag_audio_and_markup(tokens=[[token]], chapter=chapter,
\* names=['tl1'], assign_chapter=[True]): the audio reference, the markup,
\* the chapter and the tags it returns for one token in a chapter context.
tag_audio_and_markup(token, chapter) ==
    [audio_output |-> <<"[sound:">> \o token \o <<"]">>,
     markup_output |-> <<"<span>">> \o token \o <<"</span>">>,
     chapter |-> chapter,
     tags |-> <<"TL", "_", "chap">> \o str(chapter)]

\* chapter=999 of the call for the flagged cards
FlaggedChapter == 999

\* flag_id_prefix = 'HW_'
flag_id_prefix == <<"H", "W", "_">>

\* A cell pandas leaves empty in an outer merge
NaN == <<"NaN">>

\* AnnotatedAudio recording nothing
AnnotatedAudioNone(dict) == {}

\* What the calls of lines 496-508 record in aud_dicts: the tl1 of every
\* card, used in chapter 999
AnnotatedAudio(dict) == {<<dict[h].tl1, FlaggedChapter>> : h \in DOMAIN dict}

\* tl1_df after lines 494-512: one row per card of the dictionary, annotated
Tl1Df(dict) ==
    [h \in DOMAIN dict |->
        LET x == tag_audio_and_markup(dict[h].tl1, FlaggedChapter) IN
        [card |-> dict[h], tl_audio |-> x.audio_output,
         tl1_color |-> x.markup_output, chapter |-> x.chapter, Tags |-> x.tags]]

\* np.where(df.tl_headword != '', df.tl_headword, df.tl1)
tl_for_headword(r) == IF r.tl_headword # <<>> THEN r.tl_headword ELSE r.tl1

\* One row of the frame _process_tl_override_df returns (lines 287-312, 338)
OverrideRow(r) ==
    LET x == tag_audio_and_markup(r.tl1, r.min_chap) IN
    [id |-> r.id, merge_id |-> str_to_wordlist_key(tl_for_headword(r)),
     audio |-> x.audio_output, chapter |-> x.chapter,
     Tags |-> <<"chap">> \o str(r.min_chap) \o <<" ">> \o x.tags]

\* Tl3Branch accepting every frame that has a prebuilt column
Tl3BranchNeverRaises(cols) ==
    IF "tl3_prompts_list" \notin cols /\ "tl3_list" \notin cols THEN "build"
    ELSE "strip"

\* The branch of lines 248-267 taken for the columns the frame has:
\* "build" the two lists, "raise" the ValueError, or "strip" the prebuilt ones
Tl3Branch(cols) ==
    IF "tl3_prompts_list" \notin cols /\ "tl3_list" \notin cols THEN "build"
    ELSE IF "tl3_prompts_list" \in cols \/ "tl3_list" \in cols THEN "raise"
    ELSE "strip"

\* The tl3 columns of the caller's frame after lines 248-267: the build
\* branch adds tl3p, tl3t, tl3n and the two lists to it in place
Tl3Columns(cols) ==
    IF Tl3Branch(cols) = "build"
    THEN cols \cup {"tl3p", "tl3t", "tl3n", "tl3_prompts_list", "tl3_list"}
    ELSE cols

\* df2 of line 518
ProcessTlOverrideDf(ov) == [i \in 1..Len(ov.rows) |-> OverrideRow(ov.rows[i])]

\* BothRow keeping the card's audio, chapter and tags
BothRowFlaggedWins(f, o) ==
    [merge_id |-> o.merge_id, merge_ind |-> "both", note_id |-> o.id,
     nl1 |-> f.card.nl1, tl_defs |-> f.card.tl_defs,
     answer_lang |-> f.card.answer_lang, tl1 |-> f.card.tl1,
     tl2 |-> f.card.tl2, tl_audio |-> f.tl_audio, chapter |-> f.chapter,
     Tags |-> f.Tags, has_table |-> "has_table", no_table |-> ""]

\* The rows of tl1_df.merge(df2, how='outer', on='merge_id', indicator=...)
\* with the columns of lines 535-542: one row per pair of a card and an
\* override row with the same merge_id, one per card without override row,
\* one per override row without card.
BothRow(f, o) ==
    [merge_id |-> o.merge_id, merge_ind |-> "both", note_id |-> o.id,
     nl1 |-> f.card.nl1, tl_defs |-> f.card.tl_defs,
     answer_lang |-> f.card.answer_lang, tl1 |-> f.card.tl1,
     tl2 |-> f.card.tl2, tl_audio |-> o.audio, chapter |-> o.chapter,
     Tags |-> o.Tags, has_table |-> "has_table", no_table |-> ""]

\* RightOnlyRow marking the row as one without table
RightOnlyRowNoTable(o) ==
    [merge_id |-> o.merge_id, merge_ind |-> "right_only", note_id |-> o.id,
     nl1 |-> NaN, tl_defs |-> NaN, answer_lang |-> NaN, tl1 |-> NaN,
     tl2 |-> NaN, tl_audio |-> o.audio, chapter |-> o.chapter,
     Tags |-> o.Tags, has_table |-> "", no_table |-> "Y"]

RightOnlyRow(o) ==
    [merge_id |-> o.merge_id, merge_ind |-> "right_only", note_id |-> o.id,
     nl1 |-> NaN, tl_defs |-> NaN, answer_lang |-> NaN, tl1 |-> NaN,
     tl2 |-> NaN, tl_audio |-> o.audio, chapter |-> o.chapter,
     Tags |-> o.Tags, has_table |-> "has_table", no_table |-> ""]

\* LeftOnlyRow with the bare headword as note_id
LeftOnlyRowNoPrefix(f) ==
    [merge_id |-> f.card.merge_id, merge_ind |-> "left_only",
     note_id |-> f.card.merge_id,
     nl1 |-> f.card.nl1, tl_defs |-> f.card.tl_defs,
     answer_lang |-> f.card.answer_lang, tl1 |-> f.card.tl1,
     tl2 |-> f.card.tl2, tl_audio |-> f.tl_audio, chapter |-> f.chapter,
     Tags |-> f.Tags, has_table |-> "", no_table |-> "Y"]

LeftOnlyRow(f) ==
    [merge_id |-> f.card.merge_id, merge_ind |-> "left_only",
     note_id |-> flag_id_prefix \o f.card.merge_id,
     nl1 |-> f.card.nl1, tl_defs |-> f.card.tl_defs,
     answer_lang |-> f.card.answer_lang, tl1 |-> f.card.tl1,
     tl2 |-> f.card.tl2, tl_audio |-> f.tl_audio, chapter |-> f.chapter,
     Tags |-> f.Tags, has_table |-> "", no_table |-> "Y"]

OuterMerge(left, df2) ==
    {IF df2[i].merge_id \in DOMAIN left
        THEN BothRow(left[df2[i].merge_id], df2[i])
        ELSE RightOnlyRow(df2[i]) : i \in 1..Len(df2)}
    \cup {LeftOnlyRow(left[h]) :
            h \in {k \in DOMAIN left : \A i \in 1..Len(df2) : df2[i].merge_id # k}}

-----------------------------------------------------------------------------
(* examples/de1_flagged.py: make_new_cards, called with sep = ',' (the
   default of create_de1_flagged_output), flags = FLAGS and
   str_to_wordlist_key = make_wordlist_key_notes *)

\* No call of make_new_cards
NoCall == [exclude_headwords |-> {}, en1 |-> <<>>, part_of_speech |-> "",
           de1 |-> <<>>, de2 |-> <<>>, de_notes |-> <<>>, de_pronun |-> <<>>]

\* to_def_dict(col, sep) of de1_flagged.py: col.split(sep), then the loop
\* that add._to_def_dict has too
de1_to_def_dict(col, sep) == to_def_dict(split(col, sep))

\* Lines 189-199: the value assigned to de2 for the token at index i, cur
\* being the value the variable de2 holds on entry to the iteration
De2Token(call, cur, i) ==
    LET in_form == Contains(call.de1, <<"(", "i", "n", ")">>)
        sep2 == IF (in_form /\ call.part_of_speech = "N")
                   \/ call.part_of_speech = "V" THEN ";" ELSE ","
    IN  IF call.part_of_speech \notin {"N", "V"} THEN <<>>
        ELSE IF i + 1 <= Len(split(cur, sep2))
             THEN split(cur, sep2)[i + 1] ELSE <<>>

\* Lines 203-223: definition and def_type, or the exception
De1Resolve(de1_list, dd, de_notes, i) ==
    IF i + 1 \in DOMAIN dd THEN
        IF Truthy(dd[i + 1][1]) THEN
            IF dd[i + 1][1] > Len(de1_list)
            THEN [raised |-> "IndexError", de_defs |-> <<>>, def_type |-> ""]
            ELSE [raised |-> "",
                  de_defs |-> de1_list[dd[i + 1][1]] \o <<" ">> \o dd[i + 1][2],
                  def_type |-> "[DE]"]
        ELSE [raised |-> "", de_defs |-> dd[i + 1][2],
              def_type |-> "[EN (or DE)]"]
    ELSE IF \/ Contains(de_notes, str(i + 1) \o <<":">>)
            \/ Contains(de_notes, str(i + 1) \o <<"=">>)
         THEN [raised |-> "incorrect format def", de_defs |-> <<>>,
               def_type |-> "[EN]"]
         ELSE [raised |-> "", de_defs |-> <<>>, def_type |-> "[EN]"]

\* One iteration of the loop of make_new_cards (lines 181-245) for the token
\* at 0-based index i: the exception, the value of de2 and the dictionary
\* afterwards
De1Token(call, cur, dict, i) ==
    LET de1_list == split(call.de1, ",")
        val == strip(de1_list[i + 1])
        headword == str_to_wordlist_key(val)
    IN  IF isdisjoint(FLAGS, val) \/ headword \in call.exclude_headwords
        THEN [raised |-> "", de2 |-> cur, dict |-> dict]
        ELSE LET new_de2 == De2Token(call, cur, i)
                 def_dict == de1_to_def_dict(call.de_notes, ";")
                 res == De1Resolve(de1_list, def_dict.dict, call.de_notes, i)
             IN  IF def_dict.raised THEN
                     [raised |-> "puts in dict twice", de2 |-> new_de2,
                      dict |-> dict]
                 ELSE IF def_dict.invalid THEN
                     [raised |-> "invalid literal", de2 |-> new_de2,
                      dict |-> dict]
                 ELSE IF res.raised # "" THEN
                     [raised |-> res.raised, de2 |-> new_de2, dict |-> dict]
                 ELSE IF headword = <<>> THEN
                     [raised |-> "headword empty", de2 |-> new_de2,
                      dict |-> dict]
                 ELSE [raised |-> "", de2 |-> new_de2,
                       dict |-> IF headword \in DOMAIN dict THEN dict
                                ELSE (headword :>
                                        [note_id |-> <<"D", "E", "1", "_">> \o headword,
                                         en1 |-> call.en1,
                                         part_of_speech |-> call.part_of_speech,
                                         de_defs |-> res.de_defs,
                                         def_type |-> res.def_type,
                                         de1 |-> translate(val, FLAGS),
                                         de2 |-> new_de2,
                                         de_pronun |-> call.de_pronun]) @@ dict]

-----------------------------------------------------------------------------
(* The inputs *)

\* The most records of the primary table, tokens of one tl1_list, tl1 tokens
\* of the whole table, tokens of one tl_notes_list or tl2_list, and rows of
\* the override table
MaxRecords == 2
MaxTl1 == 2
MaxTokens == 3
MaxNotes == 2
MaxTl2 == 2
MaxOverride == 2

Haus == <<"H", "a", "u", "s">>
Gebaeude == <<"G", "e", "b", AUML, "u", "d", "e">>

\* Haus°, Haus, Haus†, Gebäude and °
Tl1Vocab == {Haus \o <<DEG>>, Haus, Haus \o <<DAGGER>>, Gebaeude, <<DEG>>}

\* 1:old, 2=1, 1=2, 1=0 and x1:2=
NotesVocab == {<<"1", ":", "o", "l", "d">>, <<"2", "=", "1">>,
               <<"1", "=", "2">>, <<"1", "=", "0">>,
               <<"x", "1", ":", "2", "=">>}

NotesLists == SeqsOf(NotesVocab, 0, MaxNotes)

\* tl2_list is '', ' x' or ' x', 'y ', ... (as many 'y ' as fit)
Tl2Lists == {[i \in 1..n |-> IF i = 1 THEN <<" ", "x">> ELSE <<"y", " ">>] :
                n \in 0..MaxTl2}

RECURSIVE Sum(_)
Sum(s) == IF s = <<>> THEN 0 ELSE Head(s) + Sum(Tail(s))

\* The start (0-based) of record r in the table's tokens laid end to end
RECURSIVE Offset(_, _)
Offset(shape, r) == IF r = 1 THEN 0 ELSE shape[r - 1] + Offset(shape, r - 1)

\* The gloss of record r
Gloss(r) == <<"n", "l">> \o str(r)

\* The primary tables: up to MaxRecords records of 1..MaxTl1 tokens each and
\* of at most MaxTokens tokens together
Shapes == {sh \in SeqsOf(1..MaxTl1, 0, MaxRecords) : Sum(sh) <= MaxTokens}

Tables ==
    UNION {{[r \in 1..Len(sh) |->
                [nl1 |-> Gloss(r), part_of_speech |-> <<"N">>,
                 tl_pronun |-> <<>>,
                 tl1_list |-> [i \in 1..sh[r] |-> toks[Offset(sh, r) + i]]]] :
            toks \in [1..Sum(sh) -> Tl1Vocab]} : sh \in Shapes}

\* tl_override_df = None
NoOverride == [given |-> FALSE, cols |-> {}, rows |-> <<>>]

\* The rows an override table is made of: tl1, tl_headword and the chapter
\* str_to_chapter gives for chaplist
OverrideVocab == {[tl1 |-> Gebaeude, tl_headword |-> <<>>, min_chap |-> 2],
                  [tl1 |-> Gebaeude, tl_headword |-> Haus, min_chap |-> 3]}

\* The override tables: rows with a unique id each, and which of the
\* prebuilt columns tl3_prompts_list and tl3_list the frame has
OverrideTables ==
    {[given |-> TRUE, cols |-> c,
      rows |-> [i \in 1..Len(rs) |->
                  [id |-> <<"A">> \o str(i), tl1 |-> rs[i].tl1,
                   tl_headword |-> rs[i].tl_headword,
                   min_chap |-> rs[i].min_chap]]] :
        c \in SUBSET {"tl3_prompts_list", "tl3_list"},
        rs \in SeqsOf(OverrideVocab, 1, MaxOverride)}

\* The note tokens given to _to_def_dict alone
ParseVocab == NotesVocab \cup
    {<<"1", ":", " ", "x">>, <<"1", APPROX, "2">>, <<" ", "1", "=", "2", " ">>,
     <<"2", "=", "1", " ", "(", "p", ")">>, <<"3", ":", " ", "f", " ", "t">>,
     <<"1", "0", ":", " ", "x">>, <<"1", "2", "=", "3">>, <<"1", ":">>}

ParseLists == SeqsOf(ParseVocab, 0, MaxNotes)

-----------------------------------------------------------------------------
(* create_tl_additional_output *)

NoLast == [kind |-> "", raised |-> "", card |-> NoCard, row |-> 0, idx |-> 0]

NoRetDict == [raised |-> FALSE, invalid |-> FALSE, dict |-> EmptyDict]

Init ==
    /\ pc = "classify"
    /\ err = ""
    /\ df \in Tables
    /\ row = 0
    /\ idx = 0
    /\ tl_notes_list = <<>>
    /\ tl2_list = <<>>
    /\ tl1_not_flagged_set = {}
    /\ tl1_flagged_dict = EmptyDict
    /\ last = NoLast
    /\ aud_dicts = {}
    /\ tl1_df = EmptyDict
    /\ tl_override_df = NoOverride
    /\ out = {}
    /\ def_list = <<>>
    /\ ret_dict = NoRetDict
    /\ col1 = <<>>
    /\ col2 = <<>>
    /\ found = 0
    /\ de_call = NoCall
    /\ de2 = <<>>
    /\ de_idx = 0
    /\ de1_flagged_dict = EmptyDict

\* Lines 476-480: the mastered set of the whole table
ClassifyAll ==
    /\ pc = "classify"
    /\ tl1_not_flagged_set' =
          UNION {UnflaggedHeadwords(df[r].tl1_list, FLAGS) : r \in 1..Len(df)}
    /\ pc' = IF Len(df) = 0 THEN "annotate" ELSE "synth"
    /\ UNCHANGED <<err, df, row, idx, tl_notes_list, tl2_list,
                   tl1_flagged_dict, last, aud_dicts, tl1_df, tl_override_df,
                   out, def_list, ret_dict>>
    /\ UNCHANGED <<col1, col2, found>>
    /\ UNCHANGED <<de_call, de2, de_idx, de1_flagged_dict>>

\* Lines 482-493 and 172-226: one iteration of the loop of _make_new_cards in
\* the call for record row+1.  The columns tl_notes_list and tl2_list of a
\* record are first read by its call, so their values are drawn with the
\* record's first token.
MakeNewCardsStep ==
    /\ pc = "synth"
    /\ \E notes \in (IF idx = 0 THEN NotesLists ELSE {tl_notes_list}),
          tl2l \in (IF idx = 0 THEN Tl2Lists ELSE {tl2_list}) :
          \E r \in {MakeNewCardsToken(tl1_not_flagged_set, tl1_flagged_dict,
                                      FLAGS, df[row + 1], tl2l, notes, idx)} :
          LET more == idx + 1 < Len(df[row + 1].tl1_list)
          IN  /\ tl_notes_list' = notes
              /\ tl2_list' = tl2l
              /\ last' = [kind |-> r.kind, raised |-> r.raised,
                          card |-> r.card, row |-> row + 1, idx |-> idx]
              /\ tl1_flagged_dict' = r.dict
              /\ IF r.raised # ""
                 THEN /\ pc' = "error"
                      /\ err' = r.raised
                      /\ UNCHANGED <<row, idx>>
                 ELSE /\ err' = err
                      /\ idx' = IF more THEN idx + 1 ELSE 0
                      /\ row' = IF more THEN row ELSE row + 1
                      /\ pc' = IF ~more /\ row + 1 = Len(df)
                               THEN "annotate" ELSE "synth"
    /\ UNCHANGED <<df, tl1_not_flagged_set, aud_dicts, tl1_df,
                   tl_override_df, out, def_list, ret_dict>>
    /\ UNCHANGED <<col1, col2, found>>
    /\ UNCHANGED <<de_call, de2, de_idx, de1_flagged_dict>>

\* Lines 494-512: the frame of the cards and their annotation.  A frame made
\* from an empty dictionary has no column tl1, and line 507 raises KeyError.
\* The variables of the loop of lines 482-493 are not read again; the model
\* clears them.
Annotate ==
    /\ pc = "annotate"
    /\ IF DOMAIN tl1_flagged_dict = {}
       THEN /\ pc' = "error"
            /\ err' = "KeyError"
            /\ UNCHANGED <<aud_dicts, tl1_df>>
       ELSE /\ pc' = "override"
            /\ err' = err
            /\ tl1_df' = Tl1Df(tl1_flagged_dict)
            /\ aud_dicts' = aud_dicts \cup AnnotatedAudio(tl1_flagged_dict)
    /\ tl_notes_list' = <<>>
    /\ tl2_list' = <<>>
    /\ last' = NoLast
    /\ UNCHANGED <<df, row, idx, tl1_not_flagged_set, tl1_flagged_dict,
                   tl_override_df, out, def_list, ret_dict>>
    /\ UNCHANGED <<col1, col2, found>>
    /\ UNCHANGED <<de_call, de2, de_idx, de1_flagged_dict>>

\* Lines 517-527 with an override table: _process_tl_override_df.  The
\* parameter is first read at line 517, so its value is drawn here.
ProcessOverride ==
    /\ pc = "override"
    /\ \E ov \in OverrideTables :
          /\ tl_override_df' = [ov EXCEPT !.cols = Tl3Columns(ov.cols)]
          /\ IF Tl3Branch(ov.cols) = "raise"
             THEN /\ pc' = "error"
                  /\ err' = "Both or none"
                  /\ UNCHANGED aud_dicts
             ELSE /\ pc' = "merge"
                  /\ err' = err
                  /\ aud_dicts' = aud_dicts \cup
                        {<<ov.rows[i].tl1, ov.rows[i].min_chap>> :
                             i \in 1..Len(ov.rows)}
    /\ UNCHANGED <<df, row, idx, tl_notes_list, tl2_list,
                   tl1_not_flagged_set, tl1_flagged_dict, last, tl1_df, out,
                   def_list, ret_dict>>
    /\ UNCHANGED <<col1, col2, found>>
    /\ UNCHANGED <<de_call, de2, de_idx, de1_flagged_dict>>

\* Lines 528-549 with an override table: the outer merge and the projection
Merge ==
    /\ pc = "merge"
    /\ out' = OuterMerge(tl1_df, ProcessTlOverrideDf(tl_override_df))
    /\ pc' = "done"
    /\ UNCHANGED <<err, df, row, idx, tl_notes_list, tl2_list,
                   tl1_not_flagged_set, tl1_flagged_dict, last, aud_dicts,
                   tl1_df, tl_override_df, def_list, ret_dict>>
    /\ UNCHANGED <<col1, col2, found>>
    /\ UNCHANGED <<de_call, de2, de_idx, de1_flagged_dict>>

\* Lines 517 and 548 with tl_override_df = None: tl1_df has no column note_id
\* (only line 541 makes one), and the projection raises KeyError.
ProjectWithoutOverride ==
    /\ pc = "override"
    /\ tl_override_df' = NoOverride
    /\ pc' = "error"
    /\ err' = "KeyError"
    /\ UNCHANGED <<df, row, idx, tl_notes_list, tl2_list,
                   tl1_not_flagged_set, tl1_flagged_dict, last, aud_dicts,
                   tl1_df, out, def_list, ret_dict>>
    /\ UNCHANGED <<col1, col2, found>>
    /\ UNCHANGED <<de_call, de2, de_idx, de1_flagged_dict>>

Next ==
    \/ ClassifyAll
    \/ MakeNewCardsStep
    \/ Annotate
    \/ ProcessOverride
    \/ Merge
    \/ ProjectWithoutOverride

Spec == Init /\ [][Next]_vars

-----------------------------------------------------------------------------
(* _make_new_cards called alone on one record, with any set of mastered
   headwords and an empty dictionary *)

Headwords == {str_to_wordlist_key(t) : t \in Tl1Vocab} \ {<<>>}

InitCards ==
    /\ pc = "synth"
    /\ err = ""
    /\ df \in {t \in Tables : Len(t) = 1}
    /\ row = 0
    /\ idx = 0
    /\ tl_notes_list = <<>>
    /\ tl2_list = <<>>
    /\ tl1_not_flagged_set \in SUBSET Headwords
    /\ tl1_flagged_dict = EmptyDict
    /\ last = NoLast
    /\ aud_dicts = {}
    /\ tl1_df = EmptyDict
    /\ tl_override_df = NoOverride
    /\ out = {}
    /\ def_list = <<>>
    /\ ret_dict = NoRetDict
    /\ col1 = <<>>
    /\ col2 = <<>>
    /\ found = 0
    /\ de_call = NoCall
    /\ de2 = <<>>
    /\ de_idx = 0
    /\ de1_flagged_dict = EmptyDict

NextCards == MakeNewCardsStep

SpecCards == InitCards /\ [][NextCards]_vars

-----------------------------------------------------------------------------
(* _to_def_dict called alone on a list of note tokens *)

InitParse ==
    /\ pc = "parse"
    /\ err = ""
    /\ df = <<>>
    /\ row = 0
    /\ idx = 0
    /\ tl_notes_list = <<>>
    /\ tl2_list = <<>>
    /\ tl1_not_flagged_set = {}
    /\ tl1_flagged_dict = EmptyDict
    /\ last = NoLast
    /\ aud_dicts = {}
    /\ tl1_df = EmptyDict
    /\ tl_override_df = NoOverride
    /\ out = {}
    /\ def_list \in ParseLists
    /\ ret_dict = NoRetDict
    /\ col1 = <<>>
    /\ col2 = <<>>
    /\ found = 0
    /\ de_call = NoCall
    /\ de2 = <<>>
    /\ de_idx = 0
    /\ de1_flagged_dict = EmptyDict

ToDefDict ==
    /\ pc = "parse"
    /\ ret_dict' = to_def_dict(def_list)
    /\ pc' = "parsed"
    /\ UNCHANGED <<err, df, row, idx, tl_notes_list, tl2_list,
                   tl1_not_flagged_set, tl1_flagged_dict, last, aud_dicts,
                   tl1_df, tl_override_df, out, def_list>>
    /\ UNCHANGED <<col1, col2, found>>
    /\ UNCHANGED <<de_call, de2, de_idx, de1_flagged_dict>>

NextParse == ToDefDict

SpecParse == InitParse /\ [][NextParse]_vars

-----------------------------------------------------------------------------
(* _make_new_cards called alone on a record of one token, the token being any
   string of letters, flags and blanks, with no mastered headword *)

\* The most characters of the token
MaxTokenLen == 3

TokenStrings == SeqsOf({"a", DEG, DAGGER, " "}, 1, MaxTokenLen)

InitTokens ==
    /\ pc = "synth"
    /\ err = ""
    /\ df \in {<<[nl1 |-> Gloss(1), part_of_speech |-> <<"N">>,
                  tl_pronun |-> <<>>, tl1_list |-> <<tok>>]>> :
                    tok \in TokenStrings}
    /\ row = 0
    /\ idx = 0
    /\ tl_notes_list = <<>>
    /\ tl2_list = <<>>
    /\ tl1_not_flagged_set = {}
    /\ tl1_flagged_dict = EmptyDict
    /\ last = NoLast
    /\ aud_dicts = {}
    /\ tl1_df = EmptyDict
    /\ tl_override_df = NoOverride
    /\ out = {}
    /\ def_list = <<>>
    /\ ret_dict = NoRetDict
    /\ col1 = <<>>
    /\ col2 = <<>>
    /\ found = 0
    /\ de_call = NoCall
    /\ de2 = <<>>
    /\ de_idx = 0
    /\ de1_flagged_dict = EmptyDict

NextTokens == MakeNewCardsStep

SpecTokens == InitTokens /\ [][NextTokens]_vars

-----------------------------------------------------------------------------
(* check_flag_usage called alone on two columns of tokens *)

\* The most tokens of a column
MaxCol == 2

\* Haus, Haus°, ~ Haus° and Haus†
FlagVocab == {Haus, Haus \o <<DEG>>, <<"~", " ">> \o Haus \o <<DEG>>,
              Haus \o <<DAGGER>>}

InitFlags ==
    /\ pc = "check"
    /\ err = ""
    /\ df = <<>>
    /\ row = 0
    /\ idx = 0
    /\ tl_notes_list = <<>>
    /\ tl2_list = <<>>
    /\ tl1_not_flagged_set = {}
    /\ tl1_flagged_dict = EmptyDict
    /\ last = NoLast
    /\ aud_dicts = {}
    /\ tl1_df = EmptyDict
    /\ tl_override_df = NoOverride
    /\ out = {}
    /\ def_list = <<>>
    /\ ret_dict = NoRetDict
    /\ col1 \in SeqsOf(FlagVocab, 0, MaxCol)
    /\ col2 \in SeqsOf(FlagVocab, 0, MaxCol)
    /\ found = 0
    /\ de_call = NoCall
    /\ de2 = <<>>
    /\ de_idx = 0
    /\ de1_flagged_dict = EmptyDict

\* Lines 819-821 of example1.py: one call of the loop; an exception ends the
\* script
CheckFlagUsage ==
    /\ pc = "check"
    /\ \E r \in {check_flag_usage(col1, col2, DE3_FLAGS_TO_CHECK)} :
          /\ found' = r.found
          /\ err' = r.raised
          /\ pc' = IF r.raised # "" THEN "error" ELSE "checked"
    /\ UNCHANGED <<df, row, idx, tl_notes_list, tl2_list,
                   tl1_not_flagged_set, tl1_flagged_dict, last, aud_dicts,
                   tl1_df, tl_override_df, out, def_list, ret_dict, col1, col2>>
    /\ UNCHANGED <<de_call, de2, de_idx, de1_flagged_dict>>

NextFlags == CheckFlagUsage

SpecFlags == InitFlags /\ [][NextFlags]_vars

-----------------------------------------------------------------------------
(* create_tl_additional_output from line 494 on, the loop of lines 482-493
   having synthesized the cards of a table of one flagged token per record *)

\* Haus°, Haus† and Gebäude°
MergeVocab == {Haus \o <<DEG>>, Haus \o <<DAGGER>>, Gebaeude \o <<DEG>>}

MergeTables ==
    {[r \in 1..Len(toks) |->
         [nl1 |-> Gloss(r), part_of_speech |-> <<"N">>, tl_pronun |-> <<>>,
          tl1_list |-> <<toks[r]>>]] : toks \in SeqsOf(MergeVocab, 0, MaxRecords)}

\* tl1_flagged_dict after the loop of lines 482-493 over the first n records
\* of such a table (no notes, no tl2, no unflagged token)
RECURSIVE Synthesized(_, _)
Synthesized(table, n) ==
    IF n = 0 THEN EmptyDict
    ELSE MakeNewCardsToken({}, Synthesized(table, n - 1), FLAGS, table[n],
                           <<>>, <<>>, 0).dict

InitMerge ==
    /\ pc = "annotate"
    /\ err = ""
    /\ df \in MergeTables
    /\ row = Len(df)
    /\ idx = 0
    /\ tl_notes_list = <<>>
    /\ tl2_list = <<>>
    /\ tl1_not_flagged_set = {}
    /\ tl1_flagged_dict = Synthesized(df, Len(df))
    /\ last = NoLast
    /\ aud_dicts = {}
    /\ tl1_df = EmptyDict
    /\ tl_override_df = NoOverride
    /\ out = {}
    /\ def_list = <<>>
    /\ ret_dict = NoRetDict
    /\ col1 = <<>>
    /\ col2 = <<>>
    /\ found = 0
    /\ de_call = NoCall
    /\ de2 = <<>>
    /\ de_idx = 0
    /\ de1_flagged_dict = EmptyDict

NextMerge ==
    \/ Annotate
    \/ ProcessOverride
    \/ Merge
    \/ ProjectWithoutOverride

SpecMerge == InitMerge /\ [][NextMerge]_vars

-----------------------------------------------------------------------------
(* The classification pass of lines 476-480 alone, on tables that also hold
   unflagged tokens without headword *)

\* Tl1Vocab and the tokens ' ' and '(x)', whose headword is ''
ClassifyVocab == Tl1Vocab \cup {<<" ">>, <<"(", "x", ")">>}

ClassifyTables ==
    UNION {{[r \in 1..Len(sh) |->
                [nl1 |-> Gloss(r), part_of_speech |-> <<"N">>,
                 tl_pronun |-> <<>>,
                 tl1_list |-> [i \in 1..sh[r] |-> toks[Offset(sh, r) + i]]]] :
            toks \in [1..Sum(sh) -> ClassifyVocab]} : sh \in Shapes}

InitClassify ==
    /\ pc = "classify"
    /\ err = ""
    /\ df \in ClassifyTables
    /\ row = 0
    /\ idx = 0
    /\ tl_notes_list = <<>>
    /\ tl2_list = <<>>
    /\ tl1_not_flagged_set = {}
    /\ tl1_flagged_dict = EmptyDict
    /\ last = NoLast
    /\ aud_dicts = {}
    /\ tl1_df = EmptyDict
    /\ tl_override_df = NoOverride
    /\ out = {}
    /\ def_list = <<>>
    /\ ret_dict = NoRetDict
    /\ col1 = <<>>
    /\ col2 = <<>>
    /\ found = 0
    /\ de_call = NoCall
    /\ de2 = <<>>
    /\ de_idx = 0
    /\ de1_flagged_dict = EmptyDict

NextClassify == ClassifyAll

SpecClassify == InitClassify /\ [][NextClassify]_vars

-----------------------------------------------------------------------------
(* _to_def_dict called alone on note tokens of every kind *)

\* ParseVocab and 2=1 (pl.), 2≈1 (pl.), 3: free text, 1=2x, 1=, the empty
\* token, and two tokens with a superscript two: ²: x and 1=²
NoteTokens == ParseVocab \cup
    {<<"2", "=", "1", " ", "(", "p", "l", ".", ")">>,
     <<"2", APPROX, "1", " ", "(", "p", "l", ".", ")">>,
     <<"3", ":", " ", "f", "r", "e", "e", " ", "t", "e", "x", "t">>,
     <<"1", "=", "2", "x">>, <<"1", "=">>, <<>>,
     <<SUP2, ":", " ", "x">>, <<"1", "=", SUP2>>}

InitNotes ==
    /\ pc = "parse"
    /\ err = ""
    /\ df = <<>>
    /\ row = 0
    /\ idx = 0
    /\ tl_notes_list = <<>>
    /\ tl2_list = <<>>
    /\ tl1_not_flagged_set = {}
    /\ tl1_flagged_dict = EmptyDict
    /\ last = NoLast
    /\ aud_dicts = {}
    /\ tl1_df = EmptyDict
    /\ tl_override_df = NoOverride
    /\ out = {}
    /\ def_list \in SeqsOf(NoteTokens, 0, MaxNotes)
    /\ ret_dict = NoRetDict
    /\ col1 = <<>>
    /\ col2 = <<>>
    /\ found = 0
    /\ de_call = NoCall
    /\ de2 = <<>>
    /\ de_idx = 0
    /\ de1_flagged_dict = EmptyDict

NextNotes == ToDefDict

SpecNotes == InitNotes /\ [][NextNotes]_vars

-----------------------------------------------------------------------------
(* de1_flagged.make_new_cards called alone on one record *)

\* The most tokens of de1
MaxDe1 == 2

\* a°, b°, b and a(in)°
De1Vocab == {<<"a", DEG>>, <<"b", DEG>>, <<"b">>,
             <<"a", "(", "i", "n", ")", DEG>>}

\* sep.join(list) with sep = ','
RECURSIVE JoinComma(_)
JoinComma(list) == IF Len(list) = 1 THEN list[1]
                   ELSE list[1] \o <<",">> \o JoinComma(Tail(list))

\* '', 'x', 'x;y' and 'x,y'
De2Vocab == {<<>>, <<"x">>, <<"x", ";", "y">>, <<"x", ",", "y">>}

\* '' and '2=1'
DeNotesVocab == {<<>>, <<"2", "=", "1">>}

InitDe1 ==
    /\ pc = "de1"
    /\ err = ""
    /\ df = <<>>
    /\ row = 0
    /\ idx = 0
    /\ tl_notes_list = <<>>
    /\ tl2_list = <<>>
    /\ tl1_not_flagged_set = {}
    /\ tl1_flagged_dict = EmptyDict
    /\ last = NoLast
    /\ aud_dicts = {}
    /\ tl1_df = EmptyDict
    /\ tl_override_df = NoOverride
    /\ out = {}
    /\ def_list = <<>>
    /\ ret_dict = NoRetDict
    /\ col1 = <<>>
    /\ col2 = <<>>
    /\ found = 0
    /\ de_call \in {[exclude_headwords |-> ex, en1 |-> Gloss(1),
                     part_of_speech |-> pos, de1 |-> JoinComma(toks),
                     de2 |-> d2, de_notes |-> dn, de_pronun |-> <<>>] :
                        ex \in {{}, {<<"b">>}}, pos \in {"N", "V", "A"},
                        toks \in SeqsOf(De1Vocab, 1, MaxDe1),
                        d2 \in De2Vocab, dn \in DeNotesVocab}
    /\ de2 = de_call.de2
    /\ de_idx = 0
    /\ de1_flagged_dict = EmptyDict

\* One iteration of the loop of make_new_cards
De1MakeNewCardsStep ==
    /\ pc = "de1"
    /\ \E r \in {De1Token(de_call, de2, de1_flagged_dict, de_idx)} :
          /\ de2' = r.de2
          /\ de1_flagged_dict' = r.dict
          /\ err' = r.raised
          /\ IF r.raised # ""
             THEN pc' = "error" /\ de_idx' = de_idx
             ELSE /\ de_idx' = de_idx + 1
                  /\ pc' = IF de_idx + 1 < Len(split(de_call.de1, ","))
                           THEN "de1" ELSE "de1done"
    /\ UNCHANGED <<df, row, idx, tl_notes_list, tl2_list,
                   tl1_not_flagged_set, tl1_flagged_dict, last, aud_dicts,
                   tl1_df, tl_override_df, out, def_list, ret_dict,
                   col1, col2, found, de_call>>

NextDe1 == De1MakeNewCardsStep

SpecDe1 == InitDe1 /\ [][NextDe1]_vars

-----------------------------------------------------------------------------
(* What the claims speak of *)

\* The positions <<record, 0-based index>> of the tokens of the primary table
Positions ==
    UNION {{<<r, i>> : i \in 0..(Len(df[r].tl1_list) - 1)} : r \in 1..Len(df)}

\* The trimmed token at a position
Token(p) == strip(df[p[1]].tl1_list[p[2] + 1])

\* The token carries a flag: one of its characters is ° or †
HasFlag(tok) == \E k \in 1..Len(tok) : tok[k] \in {DEG, DAGGER}

\* The token with its flag characters deleted
Unflagged(tok) == SelectSeq(tok, LAMBDA c : c \notin {DEG, DAGGER})

\* Position p comes before position q in input order
Before(p, q) == p[1] < q[1] \/ (p[1] = q[1] /\ p[2] < q[2])

\* The position of the last iteration of _make_new_cards
LastPos == <<last.row, last.idx>>

\* The iteration at position p has run to its end without raising
Processed(p) == p[1] <= row \/ (p[1] = row + 1 /\ p[2] < idx)

\* The loop of lines 482-493 has ended without raising
SynthDone == pc \in {"annotate", "override", "merge", "done"}

\* The headwords of the tokens that carry no flag
UnflaggedTokenHeadwords ==
    {str_to_wordlist_key(Token(p)) : p \in {q \in Positions : ~HasFlag(Token(q))}}

\* The headwords of the rows of the override table
OverrideHeadwords ==
    {str_to_wordlist_key(tl_for_headword(tl_override_df.rows[i])) :
        i \in 1..Len(tl_override_df.rows)}

\* The position key a note token produces, or None
KeyOf(raw) == IF IsEqShape(strip(raw)) \/ IsColonShape(strip(raw))
              THEN int(strip(raw)[1]) ELSE None

-----------------------------------------------------------------------------
(* The claims *)

\* C1: the table create_tl_additional_output returns has exactly one row per
\* distinct headword of the flagged cards and the override table: none is
\* missing and none is in two rows.
C1_OneRowPerHeadword ==
    pc = "done" =>
        /\ {r.merge_id : r \in out} = DOMAIN tl1_flagged_dict \cup OverrideHeadwords
        /\ \A r1, r2 \in out : r1.merge_id = r2.merge_id => r1 = r2

\* C2: every row of the merged output whose headword has both a flagged card
\* and an override row carries the audio reference, chapter and tags computed
\* for an override row of that headword, and there is such a row.
C2_OverridePrecedence ==
    pc = "done" =>
        \A h \in DOMAIN tl1_flagged_dict \cap OverrideHeadwords :
            /\ \E r \in out : r.merge_id = h
            /\ \A r \in out : r.merge_id = h =>
                  \E i \in 1..Len(tl_override_df.rows) :
                      LET o == OverrideRow(tl_override_df.rows[i]) IN
                      /\ o.merge_id = h
                      /\ r.note_id = o.id
                      /\ r.tl_audio = o.audio
                      /\ r.chapter = o.chapter
                      /\ r.Tags = o.Tags

\* A merged row of a headword in both sources whose audio, chapter and tags
\* differ from the flagged card's
C2_Witness ==
    /\ pc = "done"
    /\ \E r \in out :
          /\ r.merge_id \in DOMAIN tl1_df \cap OverrideHeadwords
          /\ r.tl_audio # tl1_df[r.merge_id].tl_audio
          /\ r.chapter # tl1_df[r.merge_id].chapter
          /\ r.Tags # tl1_df[r.merge_id].Tags

\* C3: no synthesized flagged card has the headword of an unflagged token of
\* any record of the table, wherever that token stands.
C3_MasteredExclusion ==
    DOMAIN tl1_flagged_dict \cap UnflaggedTokenHeadwords = {}

\* The table is processed, a card was made, and a flagged token has no card
\* because a later record holds an unflagged token with its headword
C3_Witness ==
    /\ pc = "annotate"
    /\ DOMAIN tl1_flagged_dict # {}
    /\ \E p, q \in Positions :
          /\ p[1] < q[1]
          /\ HasFlag(Token(p))
          /\ ~HasFlag(Token(q))
          /\ str_to_wordlist_key(Token(p)) = str_to_wordlist_key(Token(q))
          /\ str_to_wordlist_key(Token(p)) \notin DOMAIN tl1_flagged_dict

\* The processed positions whose token is flagged, not mastered and of headword h
Attempts(h) ==
    {p \in Positions :
        /\ Processed(p)
        /\ HasFlag(Token(p))
        /\ str_to_wordlist_key(Token(p)) = h
        /\ h \notin tl1_not_flagged_set}

FirstAttempt(h) == CHOOSE p \in Attempts(h) : \A q \in Attempts(h) : ~Before(q, p)

\* The stored card of every headword is the one of the first flagged,
\* non-mastered token with that headword in input order
C4_FirstFields ==
    \A h \in DOMAIN tl1_flagged_dict :
        /\ Attempts(h) # {}
        /\ tl1_flagged_dict[h].merge_id = h
        /\ tl1_flagged_dict[h].nl1 = df[FirstAttempt(h)[1]].nl1
        /\ tl1_flagged_dict[h].tl1 = Unflagged(Token(FirstAttempt(h)))
        /\ FirstAttempt(h) = LastPos => tl1_flagged_dict[h] = last.card
        /\ (last.kind = "duplicate" /\ last.card.merge_id = h) =>
              Before(FirstAttempt(h), LastPos)

\* A card once stored is never changed or removed
C4_StoredCardKept ==
    [][\A h \in DOMAIN tl1_flagged_dict :
            /\ h \in DOMAIN tl1_flagged_dict'
            /\ tl1_flagged_dict'[h] = tl1_flagged_dict[h]]_vars

\* No synthesis attempt for a headword that has a stored card raises
C4_NoLaterRaise ==
    (last.row > 0 /\ last.kind = "raised") =>
        str_to_wordlist_key(Token(LastPos)) \notin DOMAIN tl1_flagged_dict

\* C4 as claimed: first-writer-wins, and every later synthesis attempt for a
\* stored headword raises no error.
C4_AsClaimed == C4_FirstFields /\ C4_NoLaterRaise

\* C4 as amended: once a card is stored under a headword it is never changed,
\* a later attempt that builds a card for that headword is dropped without
\* error, and the stored card is the one of the first flagged, non-mastered
\* token with that headword in input order; a later attempt can still raise
\* the errors of its own record's notes.
C4_FirstWriterWins == []C4_FirstFields /\ C4_StoredCardKept

\* A later token built another card for a stored headword, and it was dropped
C4_Witness ==
    /\ last.kind = "duplicate"
    /\ last.raised = ""
    /\ pc # "error"
    /\ tl1_flagged_dict[last.card.merge_id] # last.card
    /\ tl1_flagged_dict[last.card.merge_id].tl_defs # last.card.tl_defs

\* C5: _make_new_cards makes a card only for a token that has a flag
\* character; the list Haus°, Gebäude gives exactly the card of Haus with an
\* empty mastered set, and no card when Haus is mastered.
C5_CardOnlyForFlagged ==
    /\ last.kind \in {"new", "duplicate"} =>
          HasFlag(df[last.row].tl1_list[last.idx + 1])
    /\ \A h \in DOMAIN tl1_flagged_dict :
          \E p \in Positions :
              HasFlag(Token(p)) /\ str_to_wordlist_key(Token(p)) = h
    /\ (pc = "annotate" /\ df[1].tl1_list = <<Haus \o <<DEG>>, Gebaeude>>) =>
          /\ tl1_not_flagged_set = {} =>
                /\ DOMAIN tl1_flagged_dict = {str_to_wordlist_key(Haus)}
                /\ tl1_flagged_dict[str_to_wordlist_key(Haus)].tl1 = Haus
          /\ str_to_wordlist_key(Haus) \in tl1_not_flagged_set =>
                DOMAIN tl1_flagged_dict = {}

\* The call for Haus°, Gebäude with an empty mastered set has returned
C5_Witness ==
    /\ pc = "annotate"
    /\ df[1].tl1_list = <<Haus \o <<DEG>>, Gebaeude>>
    /\ tl1_not_flagged_set = {}
    /\ DOMAIN tl1_flagged_dict = {Haus}

\* C6: a card is made for a headword exactly when some token marked with °
\* has it and no token marked with neither ° nor † has it.
C6_DocstringRule ==
    SynthDone =>
        DOMAIN tl1_flagged_dict =
            {str_to_wordlist_key(Token(p)) :
                p \in {q \in Positions : \E k \in 1..Len(Token(q)) : Token(q)[k] = DEG}}
            \ UnflaggedTokenHeadwords

\* C7: _to_def_dict raises the duplicate error exactly when two tokens of the
\* list produce the same position key, whatever their shapes; otherwise every
\* produced key is in the result.
C7_DuplicateKeyRaises ==
    pc = "parsed" =>
        /\ ret_dict.raised <=>
              \E i, j \in 1..Len(def_list) :
                  /\ i < j
                  /\ KeyOf(def_list[i]) # None
                  /\ KeyOf(def_list[i]) = KeyOf(def_list[j])
        /\ ~ret_dict.raised =>
              DOMAIN ret_dict.dict =
                  {KeyOf(def_list[i]) : i \in 1..Len(def_list)} \ {None}

\* The list '1=2', '1: x' was parsed and raised
C7_Witness ==
    /\ pc = "parsed"
    /\ def_list = << <<"1", "=", "2">>, <<"1", ":", " ", "x">> >>
    /\ ret_dict.raised

\* C8: a record whose notes hold a duplicated position key aborts the batch
\* with the duplicate error, whatever its tokens.
C8_NotesAlwaysParsed ==
    (last.row > 0 /\ to_def_dict(tl_notes_list).raised) =>
        (pc = "error" /\ err = "puts in dict twice")

\* C9: a flagged token with an empty headword fails with the empty-headword
\* error, also when its notes would raise the misformat error or refer to a
\* position outside the list.
C9_EmptyHeadwordRaises ==
    (/\ last.row > 0
     /\ HasFlag(Token(LastPos))
     /\ str_to_wordlist_key(Token(LastPos)) = <<>>
     /\ ~to_def_dict(tl_notes_list).raised) =>
        (last.raised = "headword empty" /\ err = "headword empty")

\* C10: for a flagged, non-mastered token whose position is no key of the
\* reference mapping, the card has the native-only tag and an empty
\* definition, and the misformat error is raised exactly when the joined
\* notes contain the position followed by ':' or '='.
C10_AbsentPosition ==
    (/\ last.row > 0
     /\ last.kind \in {"new", "duplicate", "raised"}
     /\ ~to_def_dict(tl_notes_list).raised
     /\ last.idx + 1 \notin DOMAIN to_def_dict(tl_notes_list).dict) =>
        /\ last.raised = "incorrect format def" <=>
              \/ Contains(join(tl_notes_list), <<Digits[last.idx + 2], ":">>)
              \/ Contains(join(tl_notes_list), <<Digits[last.idx + 2], "=">>)
        /\ last.kind \in {"new", "duplicate"} =>
              /\ last.card.answer_lang = <<"[", "N", "]">>
              /\ last.card.tl_defs = <<>>

\* The second token's position is no key and the notes contain '2='
C10_Witness ==
    /\ last.row > 0
    /\ last.idx = 1
    /\ last.raised = "incorrect format def"
    /\ ~to_def_dict(tl_notes_list).raised
    /\ 2 \notin DOMAIN to_def_dict(tl_notes_list).dict


\* The prebuilt columns the override frame was passed with (tl3p is only
\* there after the build branch, which is taken when it had neither)
PrebuiltGiven ==
    IF "tl3p" \in tl_override_df.cols THEN {}
    ELSE tl_override_df.cols \cap {"tl3_prompts_list", "tl3_list"}

\* The rows _process_tl_override_df returns for the override table
Df2 == ProcessTlOverrideDf(tl_override_df)

\* C11: an override table that has both prebuilt columns tl3_prompts_list
\* and tl3_list is preprocessed without error (its lists are trimmed).
C11_BothPrebuiltTrimmed ==
    (/\ tl_override_df.given
     /\ PrebuiltGiven = {"tl3_prompts_list", "tl3_list"}) =>
        (err = "" /\ pc \in {"merge", "done"})

\* C12: an override table with exactly one of the two prebuilt columns fails
\* with the conflicting-input error; one with neither gets both built from
\* the numbered columns, without error.
C12_OneRaisesNeitherBuilds ==
    tl_override_df.given =>
        /\ Cardinality(PrebuiltGiven) = 1 =>
              (pc = "error" /\ err = "Both or none" /\ out = {})
        /\ PrebuiltGiven = {} =>
              /\ err = ""
              /\ pc \in {"merge", "done"}
              /\ {"tl3_prompts_list", "tl3_list"} \subseteq tl_override_df.cols

\* A table with tl3_list alone has been refused
C12_Witness ==
    /\ tl_override_df.given
    /\ PrebuiltGiven = {"tl3_list"}
    /\ pc = "error"
    /\ err = "Both or none"

\* C13: a row of the output whose headword is only among the flagged cards
\* has the card's audio, chapter and tags, note_id = flag_id_prefix +
\* headword, has_table = '' and no_table = 'Y'.
C13_FlaggedOnlyRows ==
    pc = "done" =>
        \A h \in DOMAIN tl1_df \ OverrideHeadwords :
            /\ \E r \in out : r.merge_id = h
            /\ \A r \in out : r.merge_id = h =>
                  /\ r.tl_audio =
                        tag_audio_and_markup(tl1_flagged_dict[h].tl1, 999).audio_output
                  /\ r.chapter = 999
                  /\ r.Tags =
                        tag_audio_and_markup(tl1_flagged_dict[h].tl1, 999).tags
                  /\ r.note_id = <<"H", "W", "_">> \o h
                  /\ r.has_table = ""
                  /\ r.no_table = "Y"

\* The card of Haus is in the output next to an override row of Gebäude
C13_Witness ==
    /\ pc = "done"
    /\ Haus \in DOMAIN tl1_df \ OverrideHeadwords
    /\ OverrideHeadwords # {}
    /\ \E r \in out : r.merge_id = Haus /\ r.no_table = "Y"

\* C14: every override row is a row of the output with the override's id as
\* note_id, has_table = 'has_table' and no_table = ''; every output row of an
\* override headword is one of these; the rows of an override headword
\* without card have no gloss, definition, answer_lang, tl1 and tl2.
C14_OverrideRows ==
    pc = "done" =>
        /\ \A i \in 1..Len(Df2) :
              \E r \in out : r.note_id = Df2[i].id /\ r.merge_id = Df2[i].merge_id
        /\ \A r \in out : r.merge_id \in OverrideHeadwords =>
              /\ \E i \in 1..Len(Df2) :
                    r.note_id = tl_override_df.rows[i].id /\ r.merge_id = Df2[i].merge_id
              /\ r.has_table = "has_table"
              /\ r.no_table = ""
              /\ r.merge_id \notin DOMAIN tl1_flagged_dict =>
                    /\ r.nl1 = NaN
                    /\ r.tl_defs = NaN
                    /\ r.answer_lang = NaN
                    /\ r.tl1 = NaN
                    /\ r.tl2 = NaN

\* An override row of Gebäude without card and one of Haus with its card
C14_Witness ==
    /\ pc = "done"
    /\ \E r \in out : r.merge_id = Gebaeude /\ r.tl1 = NaN
    /\ \E r \in out : r.merge_id = Haus /\ r.merge_ind = "both"

\* C15: with tl_override_df = None and at least one card synthesized, the
\* call completes without error.
C15_OverrideOptional ==
    (DOMAIN tl1_df # {} /\ ~tl_override_df.given) => pc # "error"


\* The notes ['1:old', '2=1'] on a record of two tokens
OldScenario ==
    /\ last.row > 0
    /\ Len(df[last.row].tl1_list) = 2
    /\ tl_notes_list = <<<<"1", ":", "o", "l", "d">>, <<"2", "=", "1">>>>
    /\ last.kind \in {"new", "duplicate"}

\* C16: with the notes ['1:old', '2=1'] on two tokens, the card of a flagged,
\* non-mastered token 1 has the definition 'old' and the tag '[N]'.
C16_OldNativeOnly ==
    (OldScenario /\ last.idx = 0) =>
        /\ last.card.tl_defs = <<"o", "l", "d">>
        /\ last.card.answer_lang = <<"[", "N", "]">>

\* C17 as stated: with the notes ['1:old', '2=1'] on two tokens, the
\* definition of the card of a flagged, non-mastered token 2 is token 1's
\* text with nothing appended.
C17_AsClaimed ==
    (OldScenario /\ last.idx = 1) =>
        last.card.tl_defs = df[last.row].tl1_list[1]

\* C17: with the notes ['1:old', '2=1'] on two tokens, the definition of
\* the card of a flagged, non-mastered token 2 is token 1 as it stands in the
\* list (flags kept), trimmed of surrounding whitespace, followed by one
\* space, and its tag is '[T]'.
C17_TokenOneAndSpace ==
    (OldScenario /\ last.idx = 1) =>
        /\ last.card.tl_defs = strip(df[last.row].tl1_list[1]) \o <<" ">>
        /\ Len(last.card.tl_defs) = Len(strip(df[last.row].tl1_list[1])) + 1
        /\ last.card.answer_lang = <<"[", "T", "]">>

\* Token 2 of ['Haus°', 'Haus†'] got its card with these notes
C17_Witness ==
    /\ OldScenario
    /\ last.idx = 1
    /\ last.kind = "new"
    /\ df[last.row].tl1_list = <<Haus \o <<DEG>>, Haus \o <<DAGGER>>>>
    /\ last.card.tl_defs = Haus \o <<DEG, " ">>


\* C18: the tl1 of every card has no flag character: it is the trimmed token
\* with each ° and † deleted and every other character kept in order, and
\* stripping the flags of it again changes nothing.
C18_FlagStrip ==
    /\ \A h \in DOMAIN tl1_flagged_dict :
          /\ \A k \in 1..Len(tl1_flagged_dict[h].tl1) :
                tl1_flagged_dict[h].tl1[k] \notin {DEG, DAGGER}
          /\ translate(tl1_flagged_dict[h].tl1, FLAGS) = tl1_flagged_dict[h].tl1
    /\ (last.row > 0 /\ last.kind \in {"new", "duplicate"}) =>
          /\ last.card.tl1 = Unflagged(Token(LastPos))
          /\ translate(last.card.tl1, FLAGS) = last.card.tl1

\* A token with both flags, one of them before a letter, got its card
C18_Witness ==
    /\ last.kind = "new"
    /\ Token(LastPos) = <<DAGGER, "a", DEG>>
    /\ tl1_flagged_dict[last.card.merge_id].tl1 = <<"a">>

\* C20: make_wordlist_key_notes gives a token the headword it gives the
\* token with every character of FLAGS deleted.
C20_ResolverIgnoresFlags ==
    last.row > 0 =>
        str_to_wordlist_key(Token(LastPos)) =
            str_to_wordlist_key(Unflagged(Token(LastPos)))


\* A flag of DE3_FLAGS_TO_CHECK is in a token of one column and not in the
\* token at the same index of the other, or '~' is in a flagged cell
FlagWarning ==
    /\ Len(col1) = Len(col2)
    /\ \E i \in 1..Len(col1) :
          \/ In(DEG, col1[i]) # In(DEG, col2[i])
          \/ /\ In(DEG, col1[i]) \/ In(DEG, col2[i])
             /\ In("~", col1[i]) \/ In("~", col2[i])

\* C19: check_flag_usage reports a flag that is in one column only, or a '~'
\* in a flagged cell, and returns: the run is not aborted.
C19_NonFatalDiagnostic ==
    (pc \in {"checked", "error"} /\ FlagWarning) => (pc = "checked" /\ err = "")


\* C21: after the classification pass the mastered set is the set of the
\* non-empty headwords of the tokens, of all records, that hold neither ° nor
\* †; a flagged token and a token without headword add nothing.
C21_MasteredSet ==
    pc # "classify" =>
        tl1_not_flagged_set =
            {h \in {make_wordlist_key_notes(Token(p)) : p \in Positions} :
                /\ h # <<>>
                /\ \E p \in Positions :
                      /\ make_wordlist_key_notes(Token(p)) = h
                      /\ ~HasFlag(Token(p))}

\* A table with the unflagged token '(x)', which has no headword, a flagged
\* token and an unflagged one has been classified
C21_Witness ==
    /\ pc = "synth"
    /\ \E p \in Positions : Token(p) = <<"(", "x", ")">>
    /\ \E p \in Positions : Token(p) = Haus \o <<DAGGER>>
    /\ tl1_not_flagged_set = {Gebaeude}


\* The value of a decimal digit
DigitValue == ("0" :> 0) @@ ("1" :> 1) @@ ("2" :> 2) @@ ("3" :> 3) @@
              ("4" :> 4) @@ ("5" :> 5) @@ ("6" :> 6) @@ ("7" :> 7) @@
              ("8" :> 8) @@ ("9" :> 9)

\* The trimmed token has the shape 'N=M...' or 'N≈M...', N and M decimal digits
EqShaped(t) ==
    /\ Len(t) >= 3
    /\ t[2] \in {"=", APPROX}
    /\ t[1] \in DOMAIN DigitValue
    /\ t[3] \in DOMAIN DigitValue

\* The trimmed token has the shape 'N:...', N a decimal digit
ColonShaped(t) ==
    /\ Len(t) >= 3
    /\ ~EqShaped(t)
    /\ t[1] \in DOMAIN DigitValue
    /\ t[2] = ":"

\* The trimmed token with '=' in the place of a '≈' at offset 1
WithEquals(t) ==
    IF Len(t) >= 2 /\ t[2] = APPROX THEN [t EXCEPT ![2] = "="] ELSE t

\* The call of _to_def_dict has returned
Parsed == pc = "parsed" /\ ~ret_dict.raised /\ ~ret_dict.invalid

\* C22: when _to_def_dict returns, every token of the shape 'N=M' or 'N≈M'
\* has added the key N with the value (M, '') if the trimmed token has at
\* most 4 characters and (M, token[4:]) otherwise; the list with every '≈'
\* written '=' gives the same dictionary.
C22_EqualsShape ==
    Parsed =>
        /\ \A i \in 1..Len(def_list) :
              LET t == strip(def_list[i]) IN
              EqShaped(t) =>
                  /\ DigitValue[t[1]] \in DOMAIN ret_dict.dict
                  /\ ret_dict.dict[DigitValue[t[1]]] =
                        <<DigitValue[t[3]],
                          IF Len(t) <= 4 THEN <<>> ELSE SubSeq(t, 5, Len(t))>>
        /\ to_def_dict([i \in 1..Len(def_list) |->
                           WithEquals(strip(def_list[i]))]).dict = ret_dict.dict

\* '2≈1 (pl.)' has been parsed into {2: (1, '(pl.)')}, next to '1=2x'
C22_Witness ==
    /\ Parsed
    /\ def_list = << <<"2", APPROX, "1", " ", "(", "p", "l", ".", ")">>,
                     <<"1", "=", "2", "x">> >>
    /\ ret_dict.dict[2] = <<1, <<"(", "p", "l", ".", ")">>>>
    /\ ret_dict.dict[1] = <<2, <<>>>>

\* C23: a token of the shape 'N: text' adds the key N with the value
\* (None, token[3:]); every token of no shape is ignored without error, so
\* the call raises for duplicated keys only and the keys are those of the
\* shaped tokens, each in 0..9.
C23_ColonShapeOthersIgnored ==
    pc = "parsed" =>
        /\ ~ret_dict.invalid
        /\ ~ret_dict.raised =>
              /\ \A i \in 1..Len(def_list) :
                    LET t == strip(def_list[i]) IN
                    ColonShaped(t) =>
                        /\ DigitValue[t[1]] \in DOMAIN ret_dict.dict
                        /\ ret_dict.dict[DigitValue[t[1]]] =
                              <<None, SubSeq(t, 4, Len(t))>>
              /\ DOMAIN ret_dict.dict =
                    {DigitValue[strip(def_list[i])[1]] :
                        i \in {j \in 1..Len(def_list) :
                                  \/ EqShaped(strip(def_list[j]))
                                  \/ ColonShaped(strip(def_list[j]))}}
              /\ DOMAIN ret_dict.dict \subseteq 0..9


\* The entry of the reference mapping for the position of the last token
LastEntry == to_def_dict(tl_notes_list).dict[last.idx + 1]

\* C24: for a flagged, non-mastered token whose position is a key, an entry
\* with a target position M (any digit, not None) gives the tag '[T]' and the
\* definition token M + ' ' + text; an entry without target position gives
\* the tag '[N|T]' and the text alone.
C24_TargetPositionSet ==
    (/\ last.row > 0
     /\ last.kind \in {"new", "duplicate"}
     /\ last.idx + 1 \in DOMAIN to_def_dict(tl_notes_list).dict) =>
        IF LastEntry[1] # None
        THEN /\ last.card.answer_lang = <<"[", "T", "]">>
             /\ LastEntry[1] \in 1..Len(df[last.row].tl1_list)
             /\ last.card.tl_defs =
                   strip(df[last.row].tl1_list[LastEntry[1]]) \o <<" ">> \o LastEntry[2]
        ELSE /\ last.card.answer_lang = <<"[", "N", "|", "T", "]">>
             /\ last.card.tl_defs = LastEntry[2]

\* C25: the tl2 of a card made for the token at index i is the trimmed i-th
\* element of tl2_list, or '' when the list is shorter, for every flagged
\* token of the record.
C25_SecondaryToken ==
    (last.row > 0 /\ last.kind \in {"new", "duplicate"}) =>
        last.card.tl2 =
            IF last.idx < Len(tl2_list)
            THEN SelectSeq(tl2_list[last.idx + 1], LAMBDA c : c # " ")
            ELSE <<>>

\* The second token of a record got the card with the second element, 'y'
C25_Witness ==
    /\ last.row > 0
    /\ last.kind = "new"
    /\ last.idx = 1
    /\ Len(tl2_list) = 2
    /\ last.card.tl2 = <<"y">>
    /\ tl1_flagged_dict[last.card.merge_id].tl2 = <<"y">>


\* The tokens of de1 of the call of de1_flagged.make_new_cards
De1List == split(de_call.de1, ",")

\* The token at index i of de1 is flagged, its headword is not mastered, and
\* no earlier token has its headword: its card is the one stored
De1CardOf(i) ==
    /\ ~isdisjoint(FLAGS, strip(De1List[i + 1]))
    /\ str_to_wordlist_key(strip(De1List[i + 1])) \notin de_call.exclude_headwords
    /\ \A j \in 0..(i - 1) :
          str_to_wordlist_key(strip(De1List[j + 1])) #
              str_to_wordlist_key(strip(De1List[i + 1]))

\* C26: in de1_flagged.make_new_cards the card of the flagged token at index
\* i of a noun or verb record has as de2 the i-th token of the record's de2
\* field (split on ';' for verbs and '(in)' nouns, on ',' for other nouns),
\* or '' when there is none, whatever was extracted for an earlier token.
C26_De2OfOriginalField ==
    (pc \in {"de1", "de1done"} /\ de_call.part_of_speech \in {"N", "V"}) =>
        \A i \in 0..(de_idx - 1) :
            De1CardOf(i) =>
                de1_flagged_dict[str_to_wordlist_key(strip(De1List[i + 1]))].de2 =
                    LET sep2 == IF de_call.part_of_speech = "V"
                                   \/ Contains(de_call.de1, <<"(", "i", "n", ")">>)
                                THEN ";" ELSE ","
                        parts == split(de_call.de2, sep2)
                    IN  IF i < Len(parts) THEN parts[i + 1] ELSE <<>>


\* C27: a table that yields no flagged card, with an override table, still
\* completes and returns the override records: the run does not end, before
\* the override table is read at line 517, in the KeyError of the frame
\* built from the empty dictionary.
C27_OverridesStandAlone ==
    ~(/\ pc = "error"
      /\ err = "KeyError"
      /\ DOMAIN tl1_flagged_dict = {})

\* The headwords of the tokens that carry a flag
FlaggedTokenHeadwords ==
    {str_to_wordlist_key(Token(p)) : p \in {q \in Positions : HasFlag(Token(q))}}

C29_BorrowWithinList ==
    (/\ last.row > 0
     /\ last.kind \in {"new", "duplicate", "raised"}
     /\ ~to_def_dict(tl_notes_list).raised
     /\ last.idx + 1 \in DOMAIN to_def_dict(tl_notes_list).dict
     /\ LastEntry[1] \notin {None, 0}) =>
        IF LastEntry[1] > Len(df[last.row].tl1_list)
        THEN /\ last.kind = "raised"
             /\ last.raised = "IndexError"
             /\ pc = "error"
             /\ err = "IndexError"
             /\ last.card = NoCard
        ELSE last.kind \in {"new", "duplicate"} =>
                last.card.tl_defs =
                    df[last.row].tl1_list[LastEntry[1]] \o <<" ">> \o LastEntry[2]

\* The only token of a record refers to position 2 and the run has aborted
C29_Witness ==
    /\ last.row > 0
    /\ Len(df[last.row].tl1_list) = 1
    /\ tl_notes_list = << <<"1", "=", "2">> >>
    /\ last.raised = "IndexError"
    /\ pc = "error"

\* C30: when the run is aborted by an error of the synthesis, aud_dicts is as
\* it was on entry (no card has been annotated); when it is aborted by the
\* error of the override preprocessing, the cards have been annotated.
C30_SynthesisErrorsBeforeAnnotation ==
    pc = "error" =>
        /\ err \in {"puts in dict twice", "headword empty", "incorrect format def",
                    "IndexError", "invalid literal"} =>
              (aud_dicts = {} /\ tl1_df = EmptyDict)
        /\ err = "Both or none" =>
              /\ DOMAIN tl1_df = DOMAIN tl1_flagged_dict
              /\ aud_dicts = {<<tl1_flagged_dict[h].tl1, 999>> :
                                 h \in DOMAIN tl1_flagged_dict}
              /\ aud_dicts # {}

\* The override table was refused after the card of Haus was annotated
C30_Witness ==
    /\ pc = "error"
    /\ err = "Both or none"
    /\ <<Haus, 999>> \in aud_dicts

=============================================================================
